---- MODULE Spec2Model ----
(***************************************************************************)
(* Model of src/shelly_controller.py: the ShellyController main window.    *)
(*                                                                         *)
(* The program is single-threaded and event driven: every action below is  *)
(* one complete handler invocation (a button click, a cell edit, a key     *)
(* combo, a tray-menu selection, a window close) or one process start.     *)
(*                                                                         *)
(* Python dicts are functions from key strings to values, lists are        *)
(* sequences.  The configuration file is a sequence of JSON tokens written *)
(* by json_dump and read back by json_load.                                *)
(***************************************************************************)
EXTENDS Integers, Sequences, FiniteSets, TLC

(***************************************************************************)
(* Bounds of the model.                                                    *)
(***************************************************************************)
\* number of operations explored in one behaviour that create objects, write
\* the file or start a process: process starts, add_hotkey, remove_hotkey,
\* hotkey_cell_changed and save_settings
MaxOps == 3

\* texts the user types into the IP field
IpTexts == {""}

\* texts the user types into a cell of the hotkeys table
CellTexts == {"banana"}

\* number of tokens on disk when a write of the configuration file is cut short
PartialLen == 1

(***************************************************************************)
(* JSON text: a sequence of tokens.  Separators (comma, colon, white       *)
(* space) carry no information and are left out.                           *)
(***************************************************************************)
Tok(t, v) == [t |-> t, v |-> v]

BoolText(b) == IF b THEN "true" ELSE "false"

DumpHotkey(h) ==
    << Tok("{", ""),
       Tok("key", "name"),     Tok("str", h.name),
       Tok("key", "shortcut"), Tok("str", h.shortcut),
       Tok("key", "endpoint"), Tok("str", h.endpoint),
       Tok("key", "action"),   Tok("str", h.action),
       Tok("}", "") >>

RECURSIVE DumpHotkeys(_)
DumpHotkeys(hs) ==
    IF hs = <<>> THEN <<>>
    ELSE DumpHotkey(Head(hs)) \o DumpHotkeys(Tail(hs))

\* json.dump(self.config, f, indent=2) for a configuration dict that holds
\* the four keys (save_settings has set shelly_ip, autostart and
\* minimize_to_tray; hotkeys is present in every constructed window).
json_dump(cfg) ==
    << Tok("{", ""),
       Tok("key", "shelly_ip"),        Tok("str", cfg.shelly_ip),
       Tok("key", "autostart"),        Tok("bool", BoolText(cfg.autostart)),
       Tok("key", "minimize_to_tray"), Tok("bool", BoolText(cfg.minimize_to_tray)),
       Tok("key", "hotkeys"),          Tok("[", "") >>
    \o DumpHotkeys(cfg.hotkeys)
    \o << Tok("]", ""), Tok("}", "") >>

\* Result of a failed parse (json.JSONDecodeError).
ParseFail == [ok |-> FALSE, type |-> "none", val |-> <<>>, next |-> 0]

RECURSIVE ParseValue(_, _), ParseMembers(_, _, _), ParseElements(_, _, _)

\* Recursive-descent parse of one JSON value starting at token i.
ParseValue(toks, i) ==
    IF i > Len(toks) THEN ParseFail
    ELSE CASE toks[i].t = "str"  ->
                [ok |-> TRUE, type |-> "str", val |-> toks[i].v, next |-> i + 1]
           [] toks[i].t = "bool" ->
                [ok |-> TRUE, type |-> "bool", val |-> (toks[i].v = "true"), next |-> i + 1]
           [] toks[i].t = "{"    -> ParseMembers(toks, i + 1, <<>>)
           [] toks[i].t = "["    -> ParseElements(toks, i + 1, <<>>)
           [] OTHER              -> ParseFail

\* Members of an object up to the closing brace; a repeated key keeps the
\* last value, as Python's dict does.
ParseMembers(toks, i, acc) ==
    IF i > Len(toks) THEN ParseFail
    ELSE IF toks[i].t = "}"
         THEN [ok |-> TRUE, type |-> "object", val |-> acc, next |-> i + 1]
    ELSE IF toks[i].t = "key"
         THEN LET r == ParseValue(toks, i + 1)
              IN  IF r.ok
                  THEN ParseMembers(toks, r.next, (toks[i].v :> r.val) @@ acc)
                  ELSE ParseFail
    ELSE ParseFail

\* Elements of an array up to the closing bracket.
ParseElements(toks, i, acc) ==
    IF i > Len(toks) THEN ParseFail
    ELSE IF toks[i].t = "]"
         THEN [ok |-> TRUE, type |-> "array", val |-> acc, next |-> i + 1]
    ELSE LET r == ParseValue(toks, i)
         IN  IF r.ok
             THEN ParseElements(toks, r.next, Append(acc, r.val))
             ELSE ParseFail

\* json.load(f): the document, or a failure when the text is not exactly
\* one JSON value.
json_load(toks) ==
    LET r == ParseValue(toks, 1)
    IN  IF r.ok /\ r.next = Len(toks) + 1 THEN r ELSE ParseFail

(***************************************************************************)
(* Configuration values.                                                   *)
(***************************************************************************)
DefaultConfig ==
    [ shelly_ip        |-> "192.168.1.100",
      autostart        |-> FALSE,
      minimize_to_tray |-> TRUE,
      hotkeys          |-> << [ name     |-> "Toggle Light",
                                shortcut |-> "Ctrl+Alt+L",
                                endpoint |-> "relay/0",
                                action   |-> "toggle" ] >> ]

NewHotkey ==
    [ name     |-> "New Hotkey",
      shortcut |-> "Ctrl+Alt+N",
      endpoint |-> "relay/0",
      action   |-> "toggle" ]

\* fields = ["name", "shortcut", "endpoint", "action"], indexed by column 0..3
fields == << "name", "shortcut", "endpoint", "action" >>

\* d[k] = v on a dict: replaces the value, or adds the key when absent.
DictSet(d, k, v) == (k :> v) @@ d


(***************************************************************************)
(* State.                                                                  *)
(***************************************************************************)
VARIABLES
    pc,                        \* process: "running", "crashed" (constructor raised), "exited"
    file,                      \* ~/.shelly_controller_config.json
    config,                    \* self.config
    ip_input,                  \* self.ip_input.text()
    autostart_checkbox,        \* self.autostart_checkbox.isChecked()
    minimize_to_tray_checkbox, \* self.minimize_to_tray_checkbox.isChecked()
    hotkeys_table,             \* cell texts of self.hotkeys_table, one 4-tuple per row
    qshortcuts,                \* every QShortcut created with the window as parent
    shortcuts,                 \* self.shortcuts: positions in qshortcuts
    tray_icons,                \* every QSystemTrayIcon created with the window as parent;
                               \* self.tray_icon is the last one
    visible,                   \* self.isVisible()
    op,                        \* the handler that ran last and has not yet returned to the
                               \* event loop, "idle" in the event loop
    requests,                  \* URLs of the HTTP GETs issued by that handler
    trace,                     \* its dialogs, notifications and collaborator calls
    pre,                       \* history: what add_hotkey, remove_hotkey or save_settings
                               \* started from
    saved,                     \* history: outcome of the last save_config and what it wrote
    ops                        \* number of operations counted by MaxOps so far

vars == << pc, file, config, ip_input, autostart_checkbox, minimize_to_tray_checkbox,
           hotkeys_table, qshortcuts, shortcuts, tray_icons, visible,
           op, requests, trace, pre, saved, ops >>

\* the fields of the window object and its widgets
window == << config, ip_input, autostart_checkbox, minimize_to_tray_checkbox,
             hotkeys_table, qshortcuts, shortcuts, tray_icons, visible >>

NoRow == -1

\* The handler that ran and the arguments it was called with.
Op(name, args) == [name |-> name, args |-> args]

Idle == Op("idle", <<>>)

NoPre == [config |-> <<>>, selected |-> NoRow, qshortcuts |-> <<>>, shortcuts |-> <<>>]

Range(s) == { s[i] : i \in DOMAIN s }

(***************************************************************************)
(* The configuration file.  perms is what the file system grants: "rw", or *)
(* "none" (every open raises).                                             *)
(***************************************************************************)
File(exists, perms, text) == [exists |-> exists, perms |-> perms, text |-> text]

UserConfig ==
    [ shelly_ip        |-> "10.0.0.5",
      autostart        |-> TRUE,
      minimize_to_tray |-> FALSE,
      hotkeys          |-> << [ name |-> "Lamp", shortcut |-> "Ctrl+Alt+L",
                                endpoint |-> "relay/0", action |-> "on" ],
                              [ name |-> "Fan", shortcut |-> "Ctrl+Alt+N",
                                endpoint |-> "relay/1", action |-> "off" ] >> ]

\* A document written by hand: no minimize_to_tray member, no hotkeys.
LegacyText ==
    << Tok("{", ""),
       Tok("key", "shelly_ip"), Tok("str", "10.0.0.5"),
       Tok("key", "autostart"), Tok("bool", "false"),
       Tok("key", "hotkeys"),   Tok("[", ""), Tok("]", ""),
       Tok("}", "") >>

InitialFiles ==
    { File(FALSE, "rw", <<>>),                                   \* no file
      File(TRUE, "none", json_dump(UserConfig)),                 \* cannot be opened
      File(TRUE, "rw", << Tok("{", ""), Tok("key", "shelly_ip") >>),  \* truncated JSON
      File(TRUE, "rw", << Tok("[", ""), Tok("]", "") >>),           \* JSON, but a list
      File(TRUE, "rw", << Tok("{", ""), Tok("}", "") >>),           \* JSON, empty object
      File(TRUE, "rw", LegacyText),
      File(TRUE, "rw", json_dump(UserConfig)) }

(***************************************************************************)
(* load_config                                                             *)
(***************************************************************************)
load_config(f) ==
    LET default == [type |-> "object", val |-> DefaultConfig]
    IN  IF f.exists
        THEN IF f.perms = "none"
             THEN default                        \* open() raises
             ELSE LET r == json_load(f.text)
                  IN  IF r.ok THEN [type |-> r.type, val |-> r.val]
                      ELSE default               \* json.load raises
        ELSE default

(***************************************************************************)
(* Rebuild operations.                                                     *)
(***************************************************************************)
\* Mutant of setup_shortcuts: the existing shortcuts are not disabled.
setup_shortcuts_keeps_old(qs, sc, hotkeys) ==
    [ qshortcuts |-> qs \o [ i \in 1..Len(hotkeys) |->
                               [ key      |-> hotkeys[i].shortcut,
                                 endpoint |-> hotkeys[i].endpoint,
                                 action   |-> hotkeys[i].action,
                                 enabled  |-> TRUE ] ],
      shortcuts  |-> [ i \in 1..Len(hotkeys) |-> Len(qs) + i ] ]

\* setup_shortcuts: disable every shortcut of self.shortcuts, then create one
\* enabled QShortcut per hotkey, bound to (endpoint, action).
setup_shortcuts(qs, sc, hotkeys) ==
    LET disabled == [ i \in DOMAIN qs |->
                        IF i \in Range(sc) THEN [qs[i] EXCEPT !.enabled = FALSE]
                        ELSE qs[i] ]
        created  == [ i \in 1..Len(hotkeys) |->
                        [ key      |-> hotkeys[i].shortcut,
                          endpoint |-> hotkeys[i].endpoint,
                          action   |-> hotkeys[i].action,
                          enabled  |-> TRUE ] ]
    IN  [ qshortcuts |-> disabled \o created,
          shortcuts  |-> [ i \in 1..Len(hotkeys) |-> Len(qs) + i ] ]

\* setup_tray: create a QSystemTrayIcon with one menu action per hotkey and
\* show it; self.tray_icon then names the new icon.
setup_tray(icons, hotkeys) ==
    Append(icons,
           [ visible |-> TRUE,
             menu    |-> [ i \in 1..Len(hotkeys) |->
                             [ text     |-> hotkeys[i].name \o " (" \o hotkeys[i].action \o ")",
                               endpoint |-> hotkeys[i].endpoint,
                               action   |-> hotkeys[i].action ] ] ])

\* update_hotkeys_table: the rows are rebuilt from the configuration.
update_hotkeys_table(hotkeys) ==
    [ i \in 1..Len(hotkeys) |->
        << hotkeys[i].name, hotkeys[i].shortcut, hotkeys[i].endpoint, hotkeys[i].action >> ]

(***************************************************************************)
(* __init__ and main: the state of a freshly started process.              *)
(***************************************************************************)
\* init_ui and update_hotkeys_table index the loaded document; a document
\* that is not a dict, or lacks a key they index, raises in the constructor.
ConstructorRaises(doc) ==
    \/ doc.type # "object"
    \/ ~ ({"shelly_ip", "autostart", "hotkeys"} \subseteq DOMAIN doc.val)
    \/ \E i \in DOMAIN doc.val.hotkeys :
           ~ ({"name", "shortcut", "endpoint", "action"} \subseteq DOMAIN doc.val.hotkeys[i])

\* The window fields when no window exists (the constructor raised, or the
\* process has ended).
NoWindow(cfg) ==
    [ pc |-> "crashed", config |-> cfg, ip_input |-> "",
      autostart_checkbox |-> FALSE, minimize_to_tray_checkbox |-> FALSE,
      hotkeys_table |-> <<>>, qshortcuts |-> <<>>, shortcuts |-> <<>>,
      tray_icons |-> <<>>, visible |-> FALSE ]

Constructed(f) ==
    LET doc == load_config(f)
        cfg == doc.val
    IN  IF ConstructorRaises(doc)
        THEN NoWindow(cfg)
        ELSE LET sc == setup_shortcuts(<<>>, <<>>, cfg.hotkeys)
             IN  [ pc |-> "running", config |-> cfg, ip_input |-> cfg.shelly_ip,
                   autostart_checkbox |-> cfg.autostart,
                   minimize_to_tray_checkbox |->
                       IF "minimize_to_tray" \in DOMAIN cfg
                       THEN cfg.minimize_to_tray ELSE TRUE,
                   hotkeys_table |-> update_hotkeys_table(cfg.hotkeys),
                   qshortcuts |-> sc.qshortcuts, shortcuts |-> sc.shortcuts,
                   tray_icons |-> setup_tray(<<>>, cfg.hotkeys),
                   visible |-> TRUE ]

Init ==
    /\ file \in InitialFiles
    /\ LET s == Constructed(file)
       IN  /\ pc = s.pc
           /\ config = s.config
           /\ ip_input = s.ip_input
           /\ autostart_checkbox = s.autostart_checkbox
           /\ minimize_to_tray_checkbox = s.minimize_to_tray_checkbox
           /\ hotkeys_table = s.hotkeys_table
           /\ qshortcuts = s.qshortcuts
           /\ shortcuts = s.shortcuts
           /\ tray_icons = s.tray_icons
           /\ visible = s.visible
    /\ op = Op("startup", <<>>)
    /\ requests = <<>>
    /\ trace = <<>>
    /\ pre = NoPre
    /\ saved = [status |-> "none", config |-> DefaultConfig]
    /\ ops = 1

\* A new process is started after the previous one ended.
Startup ==
    /\ pc \in {"exited", "crashed"}
    /\ ops < MaxOps
    /\ LET s == Constructed(file)
       IN  /\ pc' = s.pc
           /\ config' = s.config
           /\ ip_input' = s.ip_input
           /\ autostart_checkbox' = s.autostart_checkbox
           /\ minimize_to_tray_checkbox' = s.minimize_to_tray_checkbox
           /\ hotkeys_table' = s.hotkeys_table
           /\ qshortcuts' = s.qshortcuts
           /\ shortcuts' = s.shortcuts
           /\ tray_icons' = s.tray_icons
           /\ visible' = s.visible
    /\ op' = Op("startup", <<>>)
    /\ requests' = <<>>
    /\ trace' = <<>>
    /\ pre' = NoPre
    /\ ops' = ops + 1
    /\ UNCHANGED << file, saved >>

\* The handler returns to the event loop; its dialog or notification is gone.
ReturnToEventLoop ==
    /\ pc = "running"
    /\ op # Idle
    /\ op' = Idle
    /\ requests' = <<>>
    /\ trace' = <<>>
    /\ pre' = NoPre
    /\ UNCHANGED << pc, file, window, saved, ops >>

\* Mutant of Exit: the configuration is written to the file when the process
\* ends.
ExitSaving(name, tr) ==
    LET s == NoWindow(<<>>)
    IN  /\ pc' = "exited"
        /\ config' = s.config
        /\ ip_input' = s.ip_input
        /\ autostart_checkbox' = s.autostart_checkbox
        /\ minimize_to_tray_checkbox' = s.minimize_to_tray_checkbox
        /\ hotkeys_table' = s.hotkeys_table
        /\ qshortcuts' = s.qshortcuts
        /\ shortcuts' = s.shortcuts
        /\ tray_icons' = s.tray_icons
        /\ visible' = s.visible
        /\ op' = Op(name, <<>>)
        /\ requests' = <<>>
        /\ trace' = tr
        /\ pre' = NoPre
        /\ file' = File(TRUE, file.perms,
                        json_dump(DictSet(config, "minimize_to_tray",
                                          minimize_to_tray_checkbox)))
        /\ UNCHANGED << saved, ops >>

\* The process ends: QApplication.quit() leaves the event loop and the window
\* and everything it owns are gone.
Exit(name, tr) ==
    LET s == NoWindow(<<>>)
    IN  /\ pc' = "exited"
        /\ config' = s.config
        /\ ip_input' = s.ip_input
        /\ autostart_checkbox' = s.autostart_checkbox
        /\ minimize_to_tray_checkbox' = s.minimize_to_tray_checkbox
        /\ hotkeys_table' = s.hotkeys_table
        /\ qshortcuts' = s.qshortcuts
        /\ shortcuts' = s.shortcuts
        /\ tray_icons' = s.tray_icons
        /\ visible' = s.visible
        /\ op' = Op(name, <<>>)
        /\ requests' = <<>>
        /\ trace' = tr
        /\ pre' = NoPre
        /\ UNCHANGED << file, saved, ops >>

\* The user can operate the widgets of the window: the process is in its
\* event loop and the window is shown.
AtWindow == pc = "running" /\ op = Idle /\ visible

\* The user can operate a tray icon: some icon is shown.
AtTray == pc = "running" /\ op = Idle /\ \E i \in DOMAIN tray_icons : tray_icons[i].visible

(***************************************************************************)
(* Device client.                                                          *)
(***************************************************************************)
\* what requests.get does: a response with a status code, or an exception
\* (connection refused, timeout, ...)
Responses == {"200", "404", "exception"}

\* Mutant of toggle_shelly_device: every action value is sent to the device.
toggle_shelly_device_sends_any(cfg, endpoint, action, resp) ==
    [ requests |-> << "http://" \o cfg.shelly_ip \o "/" \o endpoint
                      \o "?turn=" \o action >>,
      trace    |->
        IF resp = "exception" THEN << "tray:Failed" >>
        ELSE IF resp = "200" THEN << "tray:Successfully toggled: " \o endpoint >>
        ELSE << "tray:Error: Status code " \o resp >> ]

\* toggle_shelly_device(endpoint, action) with the device answering resp:
\* the GETs issued and the tray notification shown.
toggle_shelly_device(cfg, endpoint, action, resp) ==
    LET ip  == cfg.shelly_ip
        url == "http://" \o ip \o "/" \o endpoint
        get == IF action = "toggle" THEN << url \o "?turn=toggle" >>
               ELSE IF action \in {"on", "off"} THEN << url \o "?turn=" \o action >>
               ELSE <<>>
    IN  [ requests |-> get,
          trace    |->
            IF get = <<>> THEN << "tray:Unknown action: " \o action >>
            ELSE IF resp = "exception" THEN << "tray:Failed" >>
            ELSE IF resp = "200" THEN << "tray:Successfully toggled: " \o endpoint >>
            ELSE << "tray:Error: Status code " \o resp >> ]

\* The activated signal of an enabled QShortcut calls the partial bound to
\* it, with the endpoint and action the hotkey had when it was created.
ShortcutActivated ==
    /\ pc = "running" /\ op = Idle
    /\ \E i \in DOMAIN qshortcuts, resp \in Responses :
          /\ qshortcuts[i].enabled
          /\ LET r == toggle_shelly_device(config, qshortcuts[i].endpoint,
                                           qshortcuts[i].action, resp)
             IN  /\ op' = Op("toggle_shelly_device",
                             << qshortcuts[i].endpoint, qshortcuts[i].action >>)
                 /\ requests' = r.requests
                 /\ trace' = r.trace
    /\ pre' = NoPre
    /\ UNCHANGED << pc, file, window, saved, ops >>

\* The triggered signal of a device entry in the menu of a shown tray icon.
TrayActionTriggered ==
    /\ pc = "running" /\ op = Idle
    /\ \E i \in DOMAIN tray_icons, resp \in Responses :
          /\ tray_icons[i].visible
          /\ \E j \in DOMAIN tray_icons[i].menu :
                LET a == tray_icons[i].menu[j]
                    r == toggle_shelly_device(config, a.endpoint, a.action, resp)
                IN  /\ op' = Op("toggle_shelly_device", << a.endpoint, a.action >>)
                    /\ requests' = r.requests
                    /\ trace' = r.trace
    /\ pre' = NoPre
    /\ UNCHANGED << pc, file, window, saved, ops >>

(***************************************************************************)
(* Connectivity probe.                                                     *)
(***************************************************************************)
endpoints == << "/shelly", "/relay/0", "/" >>

\* Mutant of probe: an exception ends the loop with the failure dialog.
RECURSIVE probe_stops_on_exception(_, _, _, _)
probe_stops_on_exception(ip, resps, k, reqs) ==
    IF k > Len(endpoints)
    THEN [ requests |-> reqs,
           trace    |-> << "warning:Failed to connect to the Shelly device" >> ]
    ELSE LET sent == Append(reqs, "http://" \o ip \o endpoints[k])
         IN  IF resps[k] = "200"
             THEN [ requests |-> sent,
                    trace    |-> << "information:Successfully connected to Shelly device!" >> ]
             ELSE IF resps[k] = "exception"
             THEN [ requests |-> sent,
                    trace    |-> << "warning:Failed to connect to the Shelly device" >> ]
             ELSE probe_stops_on_exception(ip, resps, k + 1, sent)

\* The for loop of test_connection from endpoint k on, resps[k] being what
\* the GET to endpoints[k] produces.
RECURSIVE probe(_, _, _, _)
probe(ip, resps, k, reqs) ==
    IF k > Len(endpoints)
    THEN [ requests |-> reqs,
           trace    |-> << "warning:Failed to connect to the Shelly device" >> ]
    ELSE LET sent == Append(reqs, "http://" \o ip \o endpoints[k])
         IN  IF resps[k] = "200"
             THEN [ requests |-> sent,
                    trace    |-> << "information:Successfully connected to Shelly device!" >> ]
             ELSE probe(ip, resps, k + 1, sent)

\* op.args holds what the device answered to each of the requests made.
test_connection ==
    /\ AtWindow
    /\ \E resps \in [1..Len(endpoints) -> Responses] :
          LET r == probe(config.shelly_ip, resps, 1, <<>>)
          IN  /\ op' = Op("test_connection", SubSeq(resps, 1, Len(r.requests)))
              /\ requests' = r.requests
              /\ trace' = r.trace
    /\ pre' = NoPre
    /\ UNCHANGED << pc, file, window, saved, ops >>

(***************************************************************************)
(* Editing the settings.                                                   *)
(***************************************************************************)
\* ip_input.textChanged: lambda: self.config.update({"shelly_ip": text})
ip_input_textChanged ==
    /\ AtWindow
    /\ \E text \in IpTexts :
          /\ text # ip_input
          /\ ip_input' = text
          /\ config' = DictSet(config, "shelly_ip", text)
          /\ op' = Op("ip_input.textChanged", << text >>)
    /\ requests' = <<>>
    /\ trace' = <<>>
    /\ pre' = NoPre
    /\ UNCHANGED << pc, file, autostart_checkbox, minimize_to_tray_checkbox,
                    hotkeys_table, qshortcuts, shortcuts, tray_icons, visible,
                    saved, ops >>

\* The user flips the autostart checkbox; stateChanged calls toggle_autostart
\* with the new state, which is Qt.Checked exactly when the box is checked.
toggle_autostart ==
    /\ AtWindow
    /\ autostart_checkbox' = ~ autostart_checkbox
    /\ config' = DictSet(config, "autostart", autostart_checkbox')
    /\ op' = Op("toggle_autostart", <<>>)
    /\ requests' = <<>>
    /\ trace' = <<>>
    /\ pre' = NoPre
    /\ UNCHANGED << pc, file, ip_input, minimize_to_tray_checkbox, hotkeys_table,
                    qshortcuts, shortcuts, tray_icons, visible, saved, ops >>

\* The user flips the minimize-to-tray checkbox.  (setQuitOnLastWindowClosed
\* changes a setting of the toolkit that no handler reads.)
toggle_minimize_to_tray ==
    /\ AtWindow
    /\ minimize_to_tray_checkbox' = ~ minimize_to_tray_checkbox
    /\ config' = DictSet(config, "minimize_to_tray", minimize_to_tray_checkbox')
    /\ op' = Op("toggle_minimize_to_tray", <<>>)
    /\ requests' = <<>>
    /\ trace' = <<>>
    /\ pre' = NoPre
    /\ UNCHANGED << pc, file, ip_input, autostart_checkbox, hotkeys_table,
                    qshortcuts, shortcuts, tray_icons, visible, saved, ops >>

(***************************************************************************)
(* Editing the hotkeys.                                                    *)
(***************************************************************************)
\* what the handler started from, row being the selected row
Pre(row) == [config |-> config, selected |-> row,
             qshortcuts |-> qshortcuts, shortcuts |-> shortcuts]

\* self.setup_shortcuts(); self.setup_tray() for the hotkeys list hk
Rebuild(hk) ==
    LET sc == setup_shortcuts(qshortcuts, shortcuts, hk)
    IN  /\ qshortcuts' = sc.qshortcuts
        /\ shortcuts' = sc.shortcuts
        /\ tray_icons' = setup_tray(tray_icons, hk)

\* Mutant of append: the item is inserted at the front.
prepend(lst, item) == << item >> \o lst

\* list.append(item)
append(lst, item) == Append(lst, item)

add_hotkey ==
    /\ AtWindow
    /\ ops < MaxOps
    /\ LET hk == append(config.hotkeys, NewHotkey)
       IN  /\ config' = DictSet(config, "hotkeys", hk)
           /\ hotkeys_table' = update_hotkeys_table(hk)
           /\ Rebuild(hk)
    /\ op' = Op("add_hotkey", <<>>)
    /\ requests' = <<>>
    /\ trace' = <<>>
    /\ pre' = Pre(NoRow)
    /\ ops' = ops + 1
    /\ UNCHANGED << pc, file, ip_input, autostart_checkbox,
                    minimize_to_tray_checkbox, visible, saved >>

\* Mutant of pop: the last element is removed whatever the row.
pop_last(lst, row) == SubSeq(lst, 1, Len(lst) - 1)

\* list.pop(row), row counted from 0
pop(lst, row) == SubSeq(lst, 1, row) \o SubSeq(lst, row + 2, Len(lst))

\* The user clicks Remove with row selected in the table, or with nothing
\* selected (NoRow).
remove_hotkey ==
    /\ AtWindow
    /\ \E row \in {NoRow} \cup (0 .. Len(hotkeys_table) - 1) :
          /\ pre' = Pre(row)
          /\ IF row # NoRow /\ row < Len(config.hotkeys)
             THEN /\ ops < MaxOps
                  /\ LET hk == pop(config.hotkeys, row)
                     IN  /\ config' = DictSet(config, "hotkeys", hk)
                         /\ hotkeys_table' = update_hotkeys_table(hk)
                         /\ Rebuild(hk)
                  /\ ops' = ops + 1
             ELSE UNCHANGED << config, hotkeys_table, qshortcuts, shortcuts,
                               tray_icons, ops >>
    /\ op' = Op("remove_hotkey", <<>>)
    /\ requests' = <<>>
    /\ trace' = <<>>
    /\ UNCHANGED << pc, file, ip_input, autostart_checkbox,
                    minimize_to_tray_checkbox, visible, saved >>

\* The user commits text into cell (row, column) of the table; cellChanged
\* calls hotkey_cell_changed(row, column).
hotkey_cell_changed ==
    /\ AtWindow
    /\ ops < MaxOps
    /\ \E row \in 0 .. Len(hotkeys_table) - 1, column \in 0 .. 3, text \in CellTexts :
          /\ hotkeys_table[row + 1][column + 1] # text
          /\ hotkeys_table' = [hotkeys_table EXCEPT ![row + 1][column + 1] = text]
          /\ IF row >= Len(config.hotkeys)
             THEN UNCHANGED << config, qshortcuts, shortcuts, tray_icons >>
             ELSE LET item == hotkeys_table'[row + 1][column + 1]
                      hk   == [config.hotkeys EXCEPT
                                 ![row + 1] = DictSet(@, fields[column + 1], item)]
                  IN  /\ config' = DictSet(config, "hotkeys", hk)
                      /\ Rebuild(hk)
          /\ op' = Op("hotkey_cell_changed", << fields[column + 1], text >>)
    /\ requests' = <<>>
    /\ trace' = <<>>
    /\ pre' = NoPre
    /\ ops' = ops + 1
    /\ UNCHANGED << pc, file, ip_input, autostart_checkbox,
                    minimize_to_tray_checkbox, visible, saved >>

(***************************************************************************)
(* Saving.                                                                 *)
(***************************************************************************)
\* save_config: the file afterwards and whether the warning dialog is shown.
\* cut: the write is interrupted (disk full, I/O error) after the file was
\* opened and truncated.
save_config(cfg, f, cut) ==
    IF f.perms # "rw"
    THEN [ file |-> f, failed |-> TRUE ]                            \* open() raises
    ELSE IF cut
    THEN [ file |-> File(TRUE, f.perms, SubSeq(json_dump(cfg), 1, PartialLen)),
           failed |-> TRUE ]
    ELSE [ file |-> File(TRUE, f.perms, json_dump(cfg)), failed |-> FALSE ]

\* configure_autostart: the OS registration is an external collaborator; the
\* call either completes or raises inside the handler's try block (on a
\* platform other than win32 and linux it does nothing and completes).
configure_autostart(outcome) ==
    << "configure_autostart" >>
    \o (IF outcome = "error" THEN << "warning:Failed to configure autostart" >> ELSE <<>>)

save_settings ==
    /\ AtWindow
    /\ ops < MaxOps
    /\ \E cut \in BOOLEAN, outcome \in {"ok", "error"} :
          LET cfg == DictSet(DictSet(DictSet(config,
                        "shelly_ip", ip_input),
                        "autostart", autostart_checkbox),
                        "minimize_to_tray", minimize_to_tray_checkbox)
              w   == save_config(cfg, file, cut)
          IN  /\ config' = cfg
              /\ file' = w.file
              /\ trace' = (IF w.failed
                           THEN << "warning:Failed to save configuration" >> ELSE <<>>)
                          \o configure_autostart(outcome)
                          \o << "information:Settings saved!" >>
              /\ saved' = IF w.failed THEN [saved EXCEPT !.status = "failed"]
                          ELSE [status |-> "ok", config |-> cfg]
    /\ op' = Op("save_settings", <<>>)
    /\ requests' = <<>>
    /\ pre' = Pre(NoRow)
    /\ ops' = ops + 1
    /\ UNCHANGED << pc, ip_input, autostart_checkbox, minimize_to_tray_checkbox,
                    hotkeys_table, qshortcuts, shortcuts, tray_icons, visible >>

(***************************************************************************)
(* Window and tray.                                                        *)
(***************************************************************************)
\* The Show/Hide entry of a shown tray icon, or a click on the icon.
show_hide_window ==
    /\ AtTray
    /\ visible' = ~ visible
    /\ op' = Op("show_hide_window", <<>>)
    /\ requests' = <<>>
    /\ trace' = <<>>
    /\ pre' = NoPre
    /\ UNCHANGED << pc, file, config, ip_input, autostart_checkbox,
                    minimize_to_tray_checkbox, hotkeys_table, qshortcuts, shortcuts,
                    tray_icons, saved, ops >>

\* The user closes the window.  first: QSettings holds no
\* "tray_notification_shown" value yet.
closeEvent ==
    /\ AtWindow
    /\ IF minimize_to_tray_checkbox /\ tray_icons # <<>>
          /\ tray_icons[Len(tray_icons)].visible
       THEN /\ visible' = FALSE
            /\ \E first \in BOOLEAN :
                  trace' = IF first
                           THEN << "tray:Application is still running in the system tray." >>
                           ELSE <<>>
            /\ op' = Op("closeEvent", <<>>)
            /\ requests' = <<>>
            /\ pre' = NoPre
            /\ UNCHANGED << pc, file, config, ip_input, autostart_checkbox,
                            minimize_to_tray_checkbox, hotkeys_table, qshortcuts,
                            shortcuts, tray_icons, saved, ops >>
       ELSE Exit("closeEvent", <<>>)

\* The Quit entry of a shown tray icon: QApplication.quit
quit_action ==
    /\ AtTray
    /\ Exit("quit_action", <<>>)

Next ==
    \/ Startup
    \/ ReturnToEventLoop
    \/ ShortcutActivated
    \/ TrayActionTriggered
    \/ test_connection
    \/ ip_input_textChanged
    \/ toggle_autostart
    \/ toggle_minimize_to_tray
    \/ add_hotkey
    \/ remove_hotkey
    \/ hotkey_cell_changed
    \/ save_settings
    \/ show_hide_window
    \/ closeEvent
    \/ quit_action

Spec == Init /\ [][Next]_vars

(***************************************************************************)
(* Properties.                                                             *)
(***************************************************************************)
Enabled == { i \in DOMAIN qshortcuts : qshortcuts[i].enabled }

\* C1: while a window exists, the enabled keyboard-shortcut bindings are
\* exactly the bindings of self.shortcuts, one per entry of the hotkeys list
\* and in list order, each carrying that entry's current shortcut, endpoint
\* and action; every binding of an earlier rebuild is disabled.
C1_BindingsFollowHotkeys ==
    pc = "running" =>
        /\ Len(shortcuts) = Len(config.hotkeys)
        /\ \A k \in DOMAIN shortcuts :
              /\ shortcuts[k] \in DOMAIN qshortcuts
              /\ qshortcuts[shortcuts[k]] =
                    [ key      |-> config.hotkeys[k].shortcut,
                      endpoint |-> config.hotkeys[k].endpoint,
                      action   |-> config.hotkeys[k].action,
                      enabled  |-> TRUE ]
        /\ \A k, l \in DOMAIN shortcuts : k < l => shortcuts[k] < shortcuts[l]
        /\ Enabled = Range(shortcuts)

\* C1 witness: a cell edit has rebuilt the bindings and left disabled ones behind.
C1_Witness ==
    /\ pc = "running"
    /\ op.name = "hotkey_cell_changed"
    /\ op.args[1] = "shortcut"
    /\ Len(config.hotkeys) >= 2
    /\ \E i \in DOMAIN qshortcuts : ~ qshortcuts[i].enabled

\* C2: while a window exists, the configuration holds a non-empty device
\* address.
C2_AddressNonEmpty ==
    pc = "running" => ("shelly_ip" \in DOMAIN config /\ config.shelly_ip # "")

\* C3: when writing the file fails in save_settings, a warning is shown, the
\* in-memory configuration is what it was, the process continues, no
\* autostart registration is performed and no success dialog is shown.
C3_FailedSaveIsNoOp ==
    (op.name = "save_settings" /\ saved.status = "failed") =>
        /\ pc = "running"
        /\ "warning:Failed to save configuration" \in Range(trace)
        /\ config = pre.config
        /\ "configure_autostart" \notin Range(trace)
        /\ "information:Settings saved!" \notin Range(trace)

\* the file holds a JSON object with the members every configuration has
IsConfigurationDocument(f) ==
    /\ f.exists
    /\ f.perms # "none"
    /\ LET r == json_load(f.text)
       IN  /\ r.ok
           /\ r.type = "object"
           /\ {"shelly_ip", "autostart", "hotkeys"} \subseteq DOMAIN r.val

\* C4: a process started on a missing, unreadable or malformed configuration
\* file runs with the default configuration.
C4_DefaultsOnBadFile ==
    (op.name = "startup" /\ ~ IsConfigurationDocument(file)) =>
        (pc = "running" /\ config = DefaultConfig)

\* C5: an invocation of toggle_shelly_device(endpoint, action) issues exactly
\* one GET, to http://{shelly_ip}/{endpoint}?turn={action} with the address
\* the configuration holds at that moment, when action is toggle, on or off;
\* for any other action it issues none and reports an unknown action.
C5_OneRequestPerTrigger ==
    op.name = "toggle_shelly_device" =>
        LET endpoint == op.args[1]
            action   == op.args[2]
        IN  IF action \in {"toggle", "on", "off"}
            THEN requests = << "http://" \o config.shelly_ip \o "/" \o endpoint
                               \o "?turn=" \o action >>
            ELSE /\ requests = <<>>
                 /\ trace = << "tray:Unknown action: " \o action >>

\* C5 witness: the default hotkey fired against the default address.
C5_Witness ==
    /\ op.name = "toggle_shelly_device"
    /\ op.args = << "relay/0", "toggle" >>
    /\ requests = << "http://192.168.1.100/relay/0?turn=toggle" >>

\* the position of the first endpoint that answers 200, 0 when none does
First200(resps) ==
    IF \E k \in DOMAIN resps : resps[k] = "200"
    THEN CHOOSE k \in DOMAIN resps :
            resps[k] = "200" /\ \A j \in 1 .. k - 1 : resps[j] # "200"
    ELSE 0

\* C6: test_connection requests /shelly, /relay/0 and / in that order, stops
\* with a success dialog at the first one that answers 200 (no request
\* follows a 200), and shows the failure dialog only after all three were
\* requested and each answered a non-200 status or raised.
C6_ProbeOrder ==
    op.name = "test_connection" =>
        LET urls     == << "http://" \o config.shelly_ip \o "/shelly",
                           "http://" \o config.shelly_ip \o "/relay/0",
                           "http://" \o config.shelly_ip \o "/" >>
            answered == op.args
            k        == First200(answered)
        IN  /\ Len(answered) \in 1 .. 3
            /\ requests = SubSeq(urls, 1, Len(answered))
            /\ IF k # 0
               THEN /\ k = Len(answered)
                    /\ trace = << "information:Successfully connected to Shelly device!" >>
               ELSE /\ Len(answered) = 3
                    /\ trace = << "warning:Failed to connect to the Shelly device" >>

\* C6 witness: the first endpoint raises, the second answers 200, the third
\* is never requested.
C6_Witness ==
    /\ op.name = "test_connection"
    /\ op.args = << "exception", "200" >>
    /\ Len(requests) = 2

\* C7: remove_hotkey with row i of n selected leaves the other n-1 entries
\* in their order and no enabled binding for the removed shortcut unless a
\* remaining entry has it; with nothing selected, or a row >= n, the list
\* and the bindings are unchanged.
C7_RemoveByIndex ==
    op.name = "remove_hotkey" =>
        LET old == pre.config.hotkeys
            new == config.hotkeys
            n   == Len(old)
            i   == pre.selected
        IN  IF i # NoRow /\ i < n
            THEN /\ Len(new) = n - 1
                 /\ \A j \in 1 .. n - 1 : new[j] = old[IF j <= i THEN j ELSE j + 1]
                 /\ (\E b \in Enabled : qshortcuts[b].key = old[i + 1].shortcut)
                       => \E j \in DOMAIN new : new[j].shortcut = old[i + 1].shortcut
            ELSE /\ config = pre.config
                 /\ qshortcuts = pre.qshortcuts
                 /\ shortcuts = pre.shortcuts

\* C7 witness: the first of two entries was removed and its shortcut is gone.
C7_Witness ==
    /\ op.name = "remove_hotkey"
    /\ pre.selected = 0
    /\ Len(pre.config.hotkeys) = 2
    /\ \A b \in Enabled : qshortcuts[b].key # pre.config.hotkeys[1].shortcut
    /\ \E b \in DOMAIN qshortcuts : qshortcuts[b].key = pre.config.hotkeys[1].shortcut

\* the value of key k is the same in dicts c and d (or absent in both)
SameMember(c, d, k) ==
    /\ (k \in DOMAIN c) = (k \in DOMAIN d)
    /\ k \in DOMAIN c => c[k] = d[k]

\* C8: add_hotkey appends the entry (New Hotkey, Ctrl+Alt+N, relay/0, toggle)
\* as the last element, keeps every existing entry at its index with its
\* values, and keeps shelly_ip, autostart and minimize_to_tray.
C8_AddAppends ==
    op.name = "add_hotkey" =>
        LET old == pre.config.hotkeys
            new == config.hotkeys
        IN  /\ Len(new) = Len(old) + 1
            /\ new[Len(new)] = [ name |-> "New Hotkey", shortcut |-> "Ctrl+Alt+N",
                                 endpoint |-> "relay/0", action |-> "toggle" ]
            /\ \A j \in DOMAIN old : new[j] = old[j]
            /\ \A k \in {"shelly_ip", "autostart", "minimize_to_tray"} :
                  SameMember(config, pre.config, k)

\* C8 witness: an entry was added to a list that held two.
C8_Witness ==
    /\ op.name = "add_hotkey"
    /\ Len(pre.config.hotkeys) = 2
    /\ Len(config.hotkeys) = 3

\* C9: only save_settings changes the configuration file, and a process
\* started after a successful save, whatever was edited since, runs with the
\* configuration that save wrote; with no save at all the file is the one
\* the first process found.
C9_OnlySaveWrites ==
    /\ [][op'.name # "save_settings" => file' = file]_vars
    /\ []((op.name = "startup" /\ saved.status = "ok")
             => (pc = "running" /\ config = saved.config))
    /\ [](saved.status = "none" => file \in InitialFiles)

\* C9 witness: a process started on a file that an earlier process saved.
C9_Witness ==
    /\ op.name = "startup"
    /\ pc = "running"
    /\ saved.status = "ok"
    /\ ops = 3

\* C10: while a window exists there is exactly one shown tray icon, and the
\* device entries of every shown tray menu are one per entry of the hotkeys
\* list, in list order, each with that entry's endpoint and action.
C10_OneTrayIcon ==
    pc = "running" =>
        /\ Cardinality({ i \in DOMAIN tray_icons : tray_icons[i].visible }) = 1
        /\ \A i \in DOMAIN tray_icons :
              tray_icons[i].visible =>
                 /\ Len(tray_icons[i].menu) = Len(config.hotkeys)
                 /\ \A j \in DOMAIN tray_icons[i].menu :
                       /\ tray_icons[i].menu[j].endpoint = config.hotkeys[j].endpoint
                       /\ tray_icons[i].menu[j].action = config.hotkeys[j].action

====
